---- MODULE Spec2Model ----
(***************************************************************************)
(* StaticFifoU8<N>: a fixed-length ring buffer (src/src/lib.rs).  The      *)
(* module models the struct's four fields, every method of the impl block, *)
(* and the callers that drive put/get: an unconstrained caller (Spec), a   *)
(* caller doing one put immediately followed by one get (SpecRoundTrip),   *)
(* the fill / remove k / insert k / drain scenario (SpecWrap), a caller of *)
(* the zero-length instantiation (SpecAnyN), a caller that drains or fills *)
(* (SpecDrain), a caller driving StaticFifoU32<N> alongside (SpecPair) and *)
(* a producer and a consumer with interleaved statements (SpecSPSC).       *)
(***************************************************************************)
EXTENDS Integers, Sequences, FiniteSets, TLC

\* Bounds of the exploration.
MaxN == 4      \* largest raw storage length N explored
MaxOps == 6    \* most successful puts of the unconstrained caller
MaxVal == 1    \* stored u8 values are drawn from 0..MaxVal

Values == 0..MaxVal

VARIABLES
    buf,        \* [u8; N], indexed 0..N-1
    read_ptr,   \* usize
    write_ptr,  \* usize
    capacity,   \* usize
    result,     \* the last call and what it returned
    putLog,     \* values of the puts that returned Ok, in call order
    getLog,     \* values returned by the gets that returned Ok, in call order
    pc,         \* which caller is running and where it is: "free", "rt_put",
                \* "rt_done", "wrap", "aborted", "drain", "drained", "fill",
                \* "filled", "pair", "spsc"
    test        \* the caller's locals

fifo == <<buf, read_ptr, write_ptr, capacity>>
vars == <<buf, read_ptr, write_ptr, capacity, result, putLog, getLog, pc, test>>

\* The const generic N is the length of the array buf.
N == Cardinality(DOMAIN buf)

\* Result<T, StaticFifoError> of a call; val is meaningful for Ok only
\* (for put it repeats the argument).
Returned(op, res, val) == [op |-> op, res |-> res, val |-> val]

\* A constructor that takes the comment's "you will need N+1" into capacity.
new_plus_one(n) ==
    /\ buf = [i \in 0..(n - 1) |-> 0]
    /\ read_ptr = 0
    /\ write_ptr = 0
    /\ capacity = n + 1

\* StaticFifoU8::new()
new(n) ==
    /\ buf = [i \in 0..(n - 1) |-> 0]
    /\ read_ptr = 0
    /\ write_ptr = 0
    /\ capacity = n

\* An increment of read_ptr that forgets the modulo.
increment_readptr_nowrap == read_ptr' = read_ptr + 1

increment_readptr == read_ptr' = (read_ptr + 1) % capacity

\* An increment of write_ptr that forgets the modulo.
increment_writeptr_nowrap == write_ptr' = write_ptr + 1

\* An increment that wraps at the usable capacity instead of the raw length.
increment_writeptr_short == write_ptr' = (write_ptr + 1) % (capacity - 1)

increment_writeptr == write_ptr' = (write_ptr + 1) % capacity

\* An emptiness test written with >= for ==.
is_empty_ge == IF read_ptr >= write_ptr THEN TRUE ELSE FALSE

is_empty == IF read_ptr = write_ptr THEN TRUE ELSE FALSE

\* A fullness test that reserves two slots.
is_full_two ==
    LET rp1 == (write_ptr + 2) % capacity
    IN  IF rp1 = read_ptr THEN TRUE ELSE FALSE

is_full ==
    LET rp1 == (write_ptr + 1) % capacity
    IN  IF rp1 = read_ptr THEN TRUE ELSE FALSE

\* A get that advances read_ptr before it reads the slot.
get_read_after_increment ==
    IF is_empty
    THEN /\ result' = Returned("get", "Empty", 0)
         /\ UNCHANGED fifo
    ELSE /\ increment_readptr
         /\ result' = Returned("get", "Ok", buf[read_ptr'])
         /\ UNCHANGED <<buf, write_ptr, capacity>>

\* A get that advances read_ptr before it tests for empty.
get_increment_first ==
    /\ increment_readptr
    /\ UNCHANGED <<buf, write_ptr, capacity>>
    /\ IF is_empty
       THEN result' = Returned("get", "Empty", 0)
       ELSE result' = Returned("get", "Ok", buf[read_ptr])

\* A get that zeroes the slot it vacates.
get_clear_slot ==
    IF is_empty
    THEN /\ result' = Returned("get", "Empty", 0)
         /\ UNCHANGED fifo
    ELSE LET rv == buf[read_ptr]
         IN  /\ buf' = [buf EXCEPT ![read_ptr] = 0]
             /\ increment_readptr
             /\ result' = Returned("get", "Ok", rv)
             /\ UNCHANGED <<write_ptr, capacity>>

get ==
    IF is_empty
    THEN /\ result' = Returned("get", "Empty", 0)
         /\ UNCHANGED fifo
    ELSE LET rv == buf[read_ptr]
         IN  /\ increment_readptr
             /\ result' = Returned("get", "Ok", rv)
             /\ UNCHANGED <<buf, write_ptr, capacity>>

\* A put that stores the value before it tests for full.
put_store_first(data) ==
    /\ buf' = [buf EXCEPT ![write_ptr] = data]
    /\ IF is_full
       THEN /\ result' = Returned("put", "Full", data)
            /\ UNCHANGED <<read_ptr, write_ptr, capacity>>
       ELSE /\ increment_writeptr
            /\ result' = Returned("put", "Ok", data)
            /\ UNCHANGED <<read_ptr, capacity>>

\* A put that advances write_ptr before it stores the value.
put_increment_first(data) ==
    IF is_full
    THEN /\ result' = Returned("put", "Full", data)
         /\ UNCHANGED fifo
    ELSE /\ increment_writeptr
         /\ buf' = [buf EXCEPT ![write_ptr'] = data]
         /\ result' = Returned("put", "Ok", data)
         /\ UNCHANGED <<read_ptr, capacity>>

put(data) ==
    IF is_full
    THEN /\ result' = Returned("put", "Full", data)
         /\ UNCHANGED fifo
    ELSE /\ buf' = [buf EXCEPT ![write_ptr] = data]
         /\ increment_writeptr
         /\ result' = Returned("put", "Ok", data)
         /\ UNCHANGED <<read_ptr, capacity>>

\* A len whose wrapped branch counts the usable capacity, not the raw length.
len_usable ==
    IF read_ptr > write_ptr
    THEN (capacity - 1 - read_ptr) + write_ptr
    ELSE write_ptr - read_ptr

\* A len whose wrapped branch is the plain distance between the indices.
len_distance ==
    IF read_ptr > write_ptr
    THEN read_ptr - write_ptr
    ELSE write_ptr - read_ptr

len ==
    IF read_ptr > write_ptr
    THEN (capacity - read_ptr) + write_ptr
    ELSE write_ptr - read_ptr

\* A max_len that reports the usable capacity.
max_len_usable == capacity - 1

max_len == capacity

\* What the caller has seen: the logs grow by the calls that returned Ok.
Observe ==
    /\ putLog' = IF result'.op = "put" /\ result'.res = "Ok"
                 THEN Append(putLog, result'.val) ELSE putLog
    /\ getLog' = IF result'.op = "get" /\ result'.res = "Ok"
                 THEN Append(getLog, result'.val) ELSE getLog

NoTest == [k |-> 0, i |-> 0, wasEmpty |-> FALSE, v |-> 0]

\* ---- the unconstrained caller ----
Init ==
    /\ \E n \in 1..MaxN : new(n)
    /\ result = Returned("new", "Ok", 0)
    /\ putLog = <<>>
    /\ getLog = <<>>
    /\ pc = "free"
    /\ test = NoTest

Put(v) ==
    /\ pc = "free"
    /\ Len(putLog) < MaxOps
    /\ put(v)
    /\ Observe
    /\ UNCHANGED <<pc, test>>

Get ==
    /\ pc = "free"
    /\ get
    /\ Observe
    /\ UNCHANGED <<pc, test>>

Next ==
    \/ \E v \in Values : Put(v)
    \/ Get

Spec == Init /\ [][Next]_vars

\* ---- a caller that does one put immediately followed by one get ----
RoundTripPut(v) ==
    /\ pc = "free"
    /\ put(v)
    /\ Observe
    /\ pc' = "rt_put"
    /\ test' = [test EXCEPT !.wasEmpty = is_empty, !.v = v]

RoundTripGet ==
    /\ pc = "rt_put"
    /\ get
    /\ Observe
    /\ pc' = "rt_done"
    /\ UNCHANGED test

NextRoundTrip ==
    \/ Next
    \/ \E v \in Values : RoundTripPut(v)
    \/ RoundTripGet

SpecRoundTrip == Init /\ [][NextRoundTrip]_vars

\* ---- the wraparound scenario: N-1 puts, k gets, k puts, N-1 gets ----
\* test.i counts the calls made so far; the four phases end at these counts.
FillEnd == capacity - 1
RemoveEnd == FillEnd + test.k
RefillEnd == RemoveEnd + test.k
DrainEnd == RefillEnd + (capacity - 1)

InitWrap ==
    /\ \E n \in 2..MaxN :
          /\ new(n)
          /\ \E k \in 0..(n - 2) : test = [NoTest EXCEPT !.k = k]
    /\ result = Returned("new", "Ok", 0)
    /\ putLog = <<>>
    /\ getLog = <<>>
    /\ pc = "wrap"

WrapPut(v) ==
    /\ pc = "wrap"
    /\ \/ test.i < FillEnd
       \/ RemoveEnd <= test.i /\ test.i < RefillEnd
    /\ put(v)
    /\ Observe
    /\ test' = [test EXCEPT !.i = @ + 1]
    /\ UNCHANGED pc

WrapGet ==
    /\ pc = "wrap"
    /\ \/ FillEnd <= test.i /\ test.i < RemoveEnd
       \/ RefillEnd <= test.i /\ test.i < DrainEnd
    /\ get
    /\ Observe
    /\ test' = [test EXCEPT !.i = @ + 1]
    /\ UNCHANGED pc

NextWrap ==
    \/ \E v \in Values : WrapPut(v)
    \/ WrapGet

SpecWrap == InitWrap /\ [][NextWrap]_vars

\* ---- any caller, the zero-length instantiation StaticFifoU8<0> included ----
\* new() has no check on N, and [0; 0] is a legal array.
InitAnyN ==
    /\ \E n \in 0..MaxN : new(n)
    /\ result = Returned("new", "Ok", 0)
    /\ putLog = <<>>
    /\ getLog = <<>>
    /\ pc = "free"
    /\ test = NoTest

\* put() starts with is_full(), whose (write_ptr+1) % capacity panics when
\* capacity is 0: the call does not return.  (get() returns Err(Empty) from
\* is_empty() before it reaches a modulo.)
PutAnyN(v) ==
    IF capacity = 0
    THEN /\ pc = "free"
         /\ result' = Returned("put", "Panic", v)
         /\ pc' = "aborted"
         /\ UNCHANGED <<fifo, putLog, getLog, test>>
    ELSE Put(v)

NextAnyN ==
    \/ \E v \in Values : PutAnyN(v)
    \/ Get

SpecAnyN == InitAnyN /\ [][NextAnyN]_vars

\* ---- a caller that, at any point, drains the buffer or fills it up ----
\* test.k is len() when the loop starts, test.i the calls made by the loop,
\* test.v the calls among them that returned Ok.
StartDrain ==
    /\ pc = "free"
    /\ pc' = "drain"
    /\ test' = [NoTest EXCEPT !.k = len]
    /\ UNCHANGED <<fifo, result, putLog, getLog>>

DrainGet ==
    /\ pc = "drain"
    /\ get
    /\ Observe
    /\ test' = [test EXCEPT !.i = @ + 1,
                            !.v = IF result'.res = "Ok" THEN @ + 1 ELSE @]
    /\ pc' = IF result'.res = "Ok" THEN "drain" ELSE "drained"

StartFill ==
    /\ pc = "free"
    /\ pc' = "fill"
    /\ test' = [NoTest EXCEPT !.k = len]
    /\ UNCHANGED <<fifo, result, putLog, getLog>>

FillPut(v) ==
    /\ pc = "fill"
    /\ put(v)
    /\ Observe
    /\ test' = [test EXCEPT !.i = @ + 1,
                            !.v = IF result'.res = "Ok" THEN @ + 1 ELSE @]
    /\ pc' = IF result'.res = "Ok" THEN "fill" ELSE "filled"

NextDrain ==
    \/ Next
    \/ StartDrain
    \/ DrainGet
    \/ StartFill
    \/ \E v \in Values : FillPut(v)

SpecDrain == Init /\ [][NextDrain]_vars

\* ---- StaticFifoU32<N>, the second impl block ----
\* The struct is a record f; a &mut self method returns the struct after the
\* call (self) and what the call returned (ret).
U32_new(n) ==
    [buf |-> [i \in 0..(n - 1) |-> 0],
     read_ptr |-> 0,
     write_ptr |-> 0,
     capacity |-> n]

U32_increment_readptr(f) ==
    [f EXCEPT !.read_ptr = (f.read_ptr + 1) % f.capacity]

U32_increment_writeptr(f) ==
    [f EXCEPT !.write_ptr = (f.write_ptr + 1) % f.capacity]

U32_is_empty(f) == IF f.read_ptr = f.write_ptr THEN TRUE ELSE FALSE

\* A U32 fullness test with the two indices exchanged (rp1 taken from
\* read_ptr, as its name suggests).
U32_is_full_swapped(f) ==
    LET rp1 == (f.read_ptr + 1) % f.capacity
    IN  IF rp1 = f.write_ptr THEN TRUE ELSE FALSE

U32_is_full(f) ==
    LET rp1 == (f.write_ptr + 1) % f.capacity
    IN  IF rp1 = f.read_ptr THEN TRUE ELSE FALSE

U32_get(f) ==
    IF U32_is_empty(f)
    THEN [self |-> f, ret |-> Returned("get", "Empty", 0)]
    ELSE LET rv == f.buf[f.read_ptr]
         IN  [self |-> U32_increment_readptr(f),
              ret |-> Returned("get", "Ok", rv)]

U32_put(f, data) ==
    IF U32_is_full(f)
    THEN [self |-> f, ret |-> Returned("put", "Full", data)]
    ELSE [self |-> U32_increment_writeptr(
                       [f EXCEPT !.buf = [f.buf EXCEPT ![f.write_ptr] = data]]),
          ret |-> Returned("put", "Ok", data)]

U32_len(f) ==
    IF f.read_ptr > f.write_ptr
    THEN (f.capacity - f.read_ptr) + f.write_ptr
    ELSE f.write_ptr - f.read_ptr

U32_max_len(f) == f.capacity

\* ---- a caller driving a StaticFifoU8<N> and a StaticFifoU32<N> alike ----
\* test.f32 is the caller's StaticFifoU32, test.r32 what its last call
\* returned; the values put fit u8 and u32.
InitPair ==
    /\ \E n \in 1..MaxN :
          /\ new(n)
          /\ test = [f32 |-> U32_new(n), r32 |-> Returned("new", "Ok", 0)]
    /\ result = Returned("new", "Ok", 0)
    /\ putLog = <<>>
    /\ getLog = <<>>
    /\ pc = "pair"

PairPut(v) ==
    /\ pc = "pair"
    /\ Len(putLog) < MaxOps
    /\ put(v)
    /\ Observe
    /\ LET c == U32_put(test.f32, v)
       IN  test' = [f32 |-> c.self, r32 |-> c.ret]
    /\ UNCHANGED pc

PairGet ==
    /\ pc = "pair"
    /\ get
    /\ Observe
    /\ LET c == U32_get(test.f32)
       IN  test' = [f32 |-> c.self, r32 |-> c.ret]
    /\ UNCHANGED pc

NextPair ==
    \/ \E v \in Values : PairPut(v)
    \/ PairGet

SpecPair == InitPair /\ [][NextPair]_vars

\* ---- one producer in put and one consumer in get, statements interleaved ----
\* Each read or write of read_ptr, write_ptr or a slot is one atomic,
\* sequentially consistent access.  write_ptr is written by put only and
\* read_ptr by get only, so a context's reads of its own index can be taken
\* together with its next access to shared data: put is the three steps
\* is_full() (reads read_ptr), the store, the advance; get is is_empty()
\* (reads write_ptr), the load, the advance.

\* A put body that advances write_ptr before it stores.
put_statements_swapped == <<"advance", "store">>

\* The statements of put after the is_full() test, in source order.
put_statements == <<"store", "advance">>

\* The statements of get after the is_empty() test, in source order.
get_statements == <<"load", "advance">>

\* test.pp / test.cp: 0 when the context is between calls, else the index of
\* its next statement; test.data is put's argument, test.rv get's local rv.
InitSPSC ==
    /\ \E n \in 1..MaxN : new(n)
    /\ result = Returned("new", "Ok", 0)
    /\ putLog = <<>>
    /\ getLog = <<>>
    /\ pc = "spsc"
    /\ test = [pp |-> 0, cp |-> 0, data |-> 0, rv |-> 0]

ProducerCheck(v) ==
    /\ pc = "spsc"
    /\ test.pp = 0
    /\ Len(putLog) < MaxOps
    /\ IF is_full
       THEN /\ result' = Returned("put", "Full", v)
            /\ UNCHANGED test
       ELSE /\ test' = [test EXCEPT !.pp = 1, !.data = v]
            /\ UNCHANGED result
    /\ UNCHANGED <<fifo, putLog, getLog, pc>>

ProducerStep ==
    /\ pc = "spsc"
    /\ test.pp \in 1..Len(put_statements)
    /\ IF put_statements[test.pp] = "store"
       THEN /\ buf' = [buf EXCEPT ![write_ptr] = test.data]
            /\ UNCHANGED write_ptr
       ELSE /\ increment_writeptr
            /\ UNCHANGED buf
    /\ IF test.pp = Len(put_statements)
       THEN /\ result' = Returned("put", "Ok", test.data)
            /\ Observe
            /\ test' = [test EXCEPT !.pp = 0]
       ELSE /\ test' = [test EXCEPT !.pp = @ + 1]
            /\ UNCHANGED <<result, putLog, getLog>>
    /\ UNCHANGED <<read_ptr, capacity, pc>>

ConsumerCheck ==
    /\ pc = "spsc"
    /\ test.cp = 0
    /\ IF is_empty
       THEN /\ result' = Returned("get", "Empty", 0)
            /\ UNCHANGED test
       ELSE /\ test' = [test EXCEPT !.cp = 1]
            /\ UNCHANGED result
    /\ UNCHANGED <<fifo, putLog, getLog, pc>>

ConsumerStep ==
    /\ pc = "spsc"
    /\ test.cp \in 1..Len(get_statements)
    /\ IF get_statements[test.cp] = "load"
       THEN /\ test' = [test EXCEPT !.rv = buf[read_ptr], !.cp = @ + 1]
            /\ UNCHANGED <<read_ptr, result, putLog, getLog>>
       ELSE /\ increment_readptr
            /\ result' = Returned("get", "Ok", test.rv)
            /\ Observe
            /\ test' = [test EXCEPT !.cp = 0]
    /\ UNCHANGED <<buf, write_ptr, capacity, pc>>

NextSPSC ==
    \/ \E v \in Values : ProducerCheck(v)
    \/ ProducerStep
    \/ ConsumerCheck
    \/ ConsumerStep

SpecSPSC == InitSPSC /\ [][NextSPSC]_vars

\* ---- what the caller has stored ----
\* Successful puts minus successful gets.
Stored == Len(putLog) - Len(getLog)

\* The occupied slots, oldest first: read_ptr up to (not including) write_ptr.
Contents == [j \in 1..len |-> buf[(read_ptr + j - 1) % capacity]]

\* The puts not yet taken out, oldest first.
Pending == SubSeq(putLog, Len(getLog) + 1, Len(putLog))

\* C1: for N >= 2 the k-th successful get returns the value of the k-th
\* successful put; the slots from read_ptr to write_ptr hold exactly the
\* values put and not yet got, in order, and there are at most N-1 of them.
C1_FifoOrder ==
    capacity >= 2 =>
        /\ Len(getLog) <= Len(putLog)
        /\ \A k \in 1..Len(getLog) : getLog[k] = putLog[k]
        /\ Contents = Pending
        /\ Len(Pending) <= capacity - 1

\* C1 witness: both indices have wrapped and the values got are not all equal.
C1_Witness ==
    /\ capacity = 3
    /\ Len(getLog) >= 4
    /\ write_ptr < read_ptr
    /\ \E a, b \in 1..Len(getLog) : getLog[a] # getLog[b]

\* C2: len() is the number of successful puts minus the number of successful
\* gets, and lies in 0..N-1.
C2_LenIsPutsMinusGets ==
    /\ len = Len(putLog) - Len(getLog)
    /\ len \in 0..(capacity - 1)

\* C2 witness: a wrapped buffer (read_ptr > write_ptr) holding two elements.
C2_Witness ==
    /\ read_ptr > write_ptr
    /\ len = 2
    /\ Len(getLog) >= 3

\* C3: from a fresh buffer, consecutive puts return Ok exactly while fewer
\* than N-1 have succeeded; once N-1 have succeeded is_full() is true and the
\* next put returns Err(Full).
C3_UsableCapacity ==
    [][ (result'.op = "put" /\ getLog = <<>>) =>
            /\ result'.res = "Ok" <=> Len(putLog) < capacity - 1
            /\ result'.res = "Full" <=> Len(putLog) = capacity - 1
            /\ Len(putLog') = capacity - 1 => is_full'
            /\ Len(putLog') < capacity - 1 => ~is_full' ]_vars

\* C3 witness: the N-th consecutive put on a buffer of N = 4 was refused.
C3_Witness ==
    /\ capacity = 4
    /\ getLog = <<>>
    /\ Len(putLog) = 3
    /\ result = Returned("put", "Full", 1)

\* C4: a put on a full buffer returns Err(Full) and changes none of buf,
\* read_ptr, write_ptr, capacity.
C4_FullPutIsNoOp ==
    [][ (is_full /\ result'.op = "put") =>
            /\ result'.res = "Full"
            /\ UNCHANGED fifo ]_vars

\* C4 witness: a put was refused on a buffer that is full across the wrap.
C4_Witness ==
    /\ result.op = "put"
    /\ result.res = "Full"
    /\ is_full
    /\ capacity >= 3
    /\ write_ptr < read_ptr

\* C5: a get on an empty buffer returns Err(Empty) and changes none of buf,
\* read_ptr, write_ptr, capacity.
C5_EmptyGetIsNoOp ==
    [][ (is_empty /\ result'.op = "get") =>
            /\ result'.res = "Empty"
            /\ UNCHANGED fifo ]_vars

\* C5 witness: a get was refused on a buffer emptied after use.
C5_Witness ==
    /\ result.op = "get"
    /\ result.res = "Empty"
    /\ is_empty
    /\ capacity >= 3
    /\ read_ptr > 0
    /\ Len(getLog) >= capacity

\* C6: put returns Err(Full) exactly when N-1 elements are stored and Ok
\* otherwise; get returns Err(Empty) exactly when none is stored and Ok
\* otherwise.
C6_NoSpuriousRefusal ==
    [][ /\ result'.op = "put" =>
              /\ result'.res = "Full" <=> Stored = capacity - 1
              /\ result'.res = "Ok" <=> Stored # capacity - 1
        /\ result'.op = "get" =>
              /\ result'.res = "Empty" <=> Stored = 0
              /\ result'.res = "Ok" <=> Stored # 0 ]_vars

\* C6 witness: a put succeeded with N-2 elements stored across the wrap.
C6_Witness ==
    /\ result.op = "put"
    /\ result.res = "Ok"
    /\ Stored = capacity - 1
    /\ capacity >= 3
    /\ write_ptr < read_ptr
    /\ Len(getLog) >= 2

\* C7 as stated: for every N >= 1 a fresh buffer is empty, not full, of
\* length 0, with max_len() = N.
C7_FreshAsStated ==
    result.op = "new" =>
        /\ is_empty = TRUE
        /\ is_full = FALSE
        /\ len = 0
        /\ max_len = N

\* C7 amended: a fresh buffer is empty, of length 0, with max_len() = N, and
\* is_full() is false exactly when N >= 2 (for N = 1 it is true).
C7_FreshAmended ==
    result.op = "new" =>
        /\ is_empty = TRUE
        /\ is_full = (N = 1)
        /\ len = 0
        /\ max_len = N

\* C7 witness: a fresh buffer with N = 1 reports full.
C7_Witness ==
    /\ result.op = "new"
    /\ N = 1
    /\ is_empty
    /\ is_full

\* C8 as stated: from any reachable state, put(v) then get() returns Ok(v)
\* and is_empty() after the get is what it was before the put.
C8_RoundTripAsStated ==
    pc = "rt_done" =>
        /\ result = Returned("get", "Ok", test.v)
        /\ is_empty = test.wasEmpty

\* C8 amended: from any reachable state in which the buffer is empty and
\* N >= 2, put(v) then get() returns Ok(v) and the buffer is empty again.
C8_RoundTripFromEmpty ==
    (pc = "rt_done" /\ test.wasEmpty /\ capacity >= 2) =>
        /\ result = Returned("get", "Ok", test.v)
        /\ is_empty = test.wasEmpty
        /\ Len(putLog) = Len(getLog)

\* C8 witness: the round trip ran on a buffer emptied at a wrapped position
\* whose slot held a different value before.
C8_Witness ==
    /\ pc = "rt_done"
    /\ test.wasEmpty
    /\ capacity >= 3
    /\ Len(getLog) > capacity
    /\ result = Returned("get", "Ok", 1)
    /\ getLog[Len(getLog) - capacity] = 0

\* C9: in the scenario N-1 puts, k gets, k puts, N-1 gets every call
\* succeeds; after the k puts len() = N-1 and is_full() holds; the last N-1
\* gets return the N-1-k surviving original values and then the k new ones.
C9_Wraparound ==
    pc = "wrap" =>
        /\ Len(putLog) + Len(getLog) = test.i
        /\ test.i = RefillEnd => (len = capacity - 1 /\ is_full)
        /\ test.i = DrainEnd =>
              SubSeq(getLog, test.k + 1, test.k + capacity - 1)
                = SubSeq(putLog, test.k + 1, capacity - 1)
                    \o SubSeq(putLog, capacity, capacity - 1 + test.k)

\* C9 witness: the scenario ended for N = 4, k = 2 (write_ptr wrapped to 1)
\* with new values different from a surviving one.
C9_Witness ==
    /\ pc = "wrap"
    /\ capacity = 4
    /\ test.k = 2
    /\ test.i = DrainEnd
    /\ write_ptr = 1
    /\ getLog = <<0, 0, 1, 0, 0>>

\* C10: len() = 0 exactly when is_empty(), and len() = capacity-1 exactly
\* when is_full().
C10_QueriesAgree ==
    /\ len = 0 <=> is_empty
    /\ len = capacity - 1 <=> is_full

\* C10 witness: a wrapped buffer that is neither empty nor full.
C10_Witness ==
    /\ capacity = 4
    /\ read_ptr > write_ptr
    /\ len = 1
    /\ ~is_empty
    /\ ~is_full

\* C11: max_len() returns the raw storage length N in every reachable state,
\* and no put or get, successful or refused, changes what it returns.
C11_MaxLenIsN ==
    /\ max_len = N
    /\ max_len >= 1

\* C11 witness: after refused and successful calls a buffer of N = 4 holds
\* its usable capacity of 3 elements and max_len() is 4.
C11_Witness ==
    /\ max_len = 4
    /\ Stored = 3
    /\ Len(getLog) >= 1
    /\ result = Returned("put", "Full", 0)

\* The slots holding values put and not yet got.
OccupiedSlots == {(read_ptr + j) % capacity : j \in 0..(Stored - 1)}

\* C14: read_ptr and write_ptr are always in 0..N-1, so buf[read_ptr] and
\* buf[write_ptr] are slots of the storage.
C14_IndicesInRange ==
    /\ read_ptr \in 0..(N - 1)
    /\ write_ptr \in 0..(N - 1)
    /\ read_ptr \in DOMAIN buf
    /\ write_ptr \in DOMAIN buf

\* C14 witness: read_ptr is at the last slot and write_ptr has wrapped to 0.
C14_Witness ==
    /\ N = 4
    /\ read_ptr = N - 1
    /\ write_ptr = 0
    /\ Len(putLog) = 4

\* C15: a successful put(v) with write_ptr = w sets buf[w] to v and write_ptr
\* to (w + 1) mod N and changes nothing else; slot w held no unread value.
C15_PutFrame ==
    [][ (result'.op = "put" /\ result'.res = "Ok") =>
            /\ buf' = [buf EXCEPT ![write_ptr] = result'.val]
            /\ write_ptr' = (write_ptr + 1) % N
            /\ UNCHANGED <<read_ptr, capacity>>
            /\ write_ptr \notin OccupiedSlots ]_vars

\* C15 witness: a put of 1 succeeded into the last slot, over a 0 got before.
C15_Witness ==
    /\ result = Returned("put", "Ok", 1)
    /\ capacity = 4
    /\ write_ptr = 0
    /\ buf[3] = 1
    /\ Len(getLog) >= 1
    /\ putLog[Len(putLog) - 4 + 1] = 0

\* C16: a successful get() with read_ptr = r returns buf[r] and sets read_ptr
\* to (r + 1) mod N; write_ptr, capacity and all of buf, slot r included, are
\* unchanged.
C16_GetFrame ==
    [][ (result'.op = "get" /\ result'.res = "Ok") =>
            /\ result'.val = buf[read_ptr]
            /\ read_ptr' = (read_ptr + 1) % N
            /\ UNCHANGED <<buf, write_ptr, capacity>> ]_vars

\* C16 witness: a get returned 1 from the last slot, which still holds 1.
C16_Witness ==
    /\ result = Returned("get", "Ok", 1)
    /\ capacity = 4
    /\ read_ptr = 0
    /\ buf[3] = 1
    /\ Len(getLog) = 4

\* C19: when read_ptr > write_ptr, len() computes capacity - read_ptr >= 1
\* and a result of at most N-1; otherwise write_ptr >= read_ptr; either way
\* the result is (write_ptr - read_ptr) mod N.
C19_LenNoUnderflow ==
    /\ read_ptr > write_ptr =>
          /\ capacity - read_ptr >= 1
          /\ (capacity - read_ptr) + write_ptr <= N - 1
    /\ ~(read_ptr > write_ptr) => write_ptr - read_ptr >= 0
    /\ len >= 0
    /\ len = (write_ptr - read_ptr) % N

\* C19 witness: the wrapped branch at its largest, a full buffer of N = 4
\* with read_ptr = 2 and write_ptr = 1.
C19_Witness ==
    /\ N = 4
    /\ read_ptr = 2
    /\ write_ptr = 1
    /\ len = 3

\* C12: a buffer with N = 0 cannot be constructed, so capacity is never 0 and
\* no modulo by zero is evaluated; every put and get returns Ok or Err and
\* never aborts.
C12_ZeroLengthGuarded ==
    /\ capacity # 0
    /\ result.op \in {"put", "get"} => result.res \in {"Ok", "Empty", "Full"}
    /\ pc # "aborted"

\* C17: started with len() = m, a loop of gets sees exactly m Ok and then
\* Err(Empty), leaving the buffer empty (and, for N >= 2, not full); a loop
\* of puts sees exactly N-1-m Ok and then Err(Full), leaving it full.
C17_DrainAndFillCounts ==
    /\ pc = "drain" => (test.v = test.i /\ test.i <= test.k)
    /\ pc = "drained" =>
          /\ test.v = test.k
          /\ test.i = test.k + 1
          /\ result = Returned("get", "Empty", 0)
          /\ is_empty
          /\ capacity >= 2 => ~is_full
    /\ pc = "fill" => (test.v = test.i /\ test.i <= capacity - 1 - test.k)
    /\ pc = "filled" =>
          /\ test.v = capacity - 1 - test.k
          /\ test.i = capacity - test.k
          /\ result.op = "put"
          /\ result.res = "Full"
          /\ is_full

\* C17 witness: a drain that started on a full, wrapped buffer of N = 4
\* ended after three Ok and one Empty.
C17_Witness ==
    /\ pc = "drained"
    /\ capacity = 4
    /\ test.k = 3
    /\ test.v = 3
    /\ read_ptr = 1
    /\ Len(getLog) >= 5

\* C13: driven by the same calls, StaticFifoU8<N> and StaticFifoU32<N>
\* return the same results and have equal read_ptr, write_ptr, len(),
\* is_empty(), is_full() and max_len() (and equal slot contents) after
\* every step.
C13_U8AndU32Agree ==
    pc = "pair" =>
        /\ test.r32 = result
        /\ test.f32.read_ptr = read_ptr
        /\ test.f32.write_ptr = write_ptr
        /\ test.f32.buf = buf
        /\ U32_len(test.f32) = len
        /\ U32_is_empty(test.f32) = is_empty
        /\ U32_is_full(test.f32) = is_full
        /\ U32_max_len(test.f32) = max_len

\* C13 witness: both buffers, N = 4, are full across the wrap and both have
\* just refused a put.
C13_Witness ==
    /\ pc = "pair"
    /\ capacity = 4
    /\ test.f32.capacity = 4
    /\ test.r32 = Returned("put", "Full", 1)
    /\ result = Returned("put", "Full", 1)
    /\ test.f32.write_ptr < test.f32.read_ptr
    /\ U32_len(test.f32) = 3
    /\ Len(getLog) >= 2

\* C18: with put's and get's statements interleaved, the gets that succeed
\* return the values of the puts that succeeded, in order; the producer never
\* stores into a slot holding an unread value; the consumer never loads a
\* slot before the value it is due was stored there.
C18_SPSCSafe ==
    pc = "spsc" =>
        /\ Len(getLog) <= Len(putLog)
        /\ \A k \in 1..Len(getLog) : getLog[k] = putLog[k]
        /\ Contents = Pending
        /\ (test.pp >= 1 /\ put_statements[test.pp] = "store") =>
              write_ptr \notin OccupiedSlots
        /\ (test.cp >= 1 /\ get_statements[test.cp] = "load") =>
              /\ Len(getLog) < Len(putLog)
              /\ buf[read_ptr] = putLog[Len(getLog) + 1]

\* C18 witness: the producer is about to store into a slot it has wrapped
\* round to while the consumer is between its load and its advance.
C18_Witness ==
    /\ pc = "spsc"
    /\ capacity = 3
    /\ test.pp = 1
    /\ test.cp = 2
    /\ Len(putLog) >= 3
    /\ write_ptr < read_ptr
    /\ test.data # buf[write_ptr]

====
